---- MODULE Spec2Model ----
(***************************************************************************)
(* Model of apps/web/src-tauri/src/main.rs: the desktop shell that spawns  *)
(* the API worker in its setup hook and kills it in its window-event hook. *)
(*                                                                         *)
(* The setup closure and each invocation of the window-event closure are   *)
(* sequences of steps, one per statement with an effect outside the        *)
(* closure; steps of different closures interleave.  The host framework,   *)
(* the file system and the operating system are the environment.           *)
(***************************************************************************)
EXTENDS Naturals, Sequences, FiniteSets

\* Number of windows of the application; each delivers its own events.
MaxWindows == 2

Windows == 1..MaxWindows

----------------------------------------------------------------------------
(* Paths.  A path is the sequence of its components (std::path::PathBuf);  *)
(* an absolute path starts with the root component "/".                    *)

join(p, name) == Append(p, name)

\* The prefixes of p that are directories on the way to p, shortest first,
\* p itself last (what fs::create_dir_all walks).
Ancestors(p) == [i \in 1..Len(p) |-> SubSeq(p, 1, i)]

\* Base directories the host framework may hand out.
ResourceDirs == {<<"/", "opt", "pro-chat">>}
AppDataDirs == {<<"/", "home", "pro-chat">>, <<"/", "my home", "a%#b">>}

\* The characters of every path component the model uses.
Chars(name) ==
  CASE name = "/" -> <<"/">>
    [] name = "opt" -> <<"o", "p", "t">>
    [] name = "home" -> <<"h", "o", "m", "e">>
    [] name = "my home" -> <<"m", "y", " ", "h", "o", "m", "e">>
    [] name = "a%#b" -> <<"a", "%", "#", "b">>
    [] name = "a b" -> <<"a", " ", "b">>
    [] name = "c.db" -> <<"c", ".", "d", "b">>
    [] name = "pro-chat" -> <<"p", "r", "o", "-", "c", "h", "a", "t">>
    [] name = "pro-chat.db" ->
         <<"p", "r", "o", "-", "c", "h", "a", "t", ".", "d", "b">>
    [] name = "storage" -> <<"s", "t", "o", "r", "a", "g", "e">>
    [] name = "memory" -> <<"m", "e", "m", "o", "r", "y">>
    [] name = "api" -> <<"a", "p", "i">>
    [] name = "dist" -> <<"d", "i", "s", "t">>
    [] name = "index.js" -> <<"i", "n", "d", "e", "x", ".", "j", "s">>
    [] name = "node_modules" ->
         <<"n", "o", "d", "e", "_", "m", "o", "d", "u", "l", "e", "s">>
    [] name = "bin" -> <<"b", "i", "n">>
    [] name = "node" -> <<"n", "o", "d", "e">>

RECURSIVE JoinChars(_)
JoinChars(p) ==
  IF p = <<>> THEN <<>>
  ELSE IF Len(p) = 1 THEN Chars(p[1])
  ELSE Chars(p[1]) \o <<"/">> \o JoinChars(Tail(p))

\* Path::to_string_lossy on a Unix path: the root, then the components
\* separated by "/".
to_string_lossy(p) ==
  IF p # <<>> /\ p[1] = "/" THEN <<"/">> \o JoinChars(Tail(p))
  ELSE JoinChars(p)

\* replace with the percent sign escaped as well, as a URL encoder does.
RECURSIVE replace_PercentToo(_, _, _)
replace_PercentToo(s, from, to) ==
  IF s = <<>> THEN <<>>
  ELSE (IF s[1] = from THEN to
        ELSE IF s[1] = "%" THEN <<"%", "2", "5">>
        ELSE <<s[1]>>) \o replace_PercentToo(Tail(s), from, to)

\* str::replace(from, to) for a one-character pattern.
RECURSIVE replace(_, _, _)
replace(s, from, to) ==
  IF s = <<>> THEN <<>>
  ELSE (IF s[1] = from THEN to ELSE <<s[1]>>) \o replace(Tail(s), from, to)

\* format!("file://{}", db_path.to_string_lossy().replace(' ', "%20"))
db_url(db_path) ==
  <<"f", "i", "l", "e", ":", "/", "/">>
    \o replace(to_string_lossy(db_path), " ", <<"%", "2", "0">>)

\* The locals of spawn_api that are paths derived from the base directories.
api_dir(resource_dir) == join(resource_dir, "api")
entry(resource_dir) == join(join(api_dir(resource_dir), "dist"), "index.js")
node_modules(resource_dir) == join(resource_dir, "node_modules")
storage_root(app_data_dir) == join(app_data_dir, "storage")
memory_root(app_data_dir) == join(app_data_dir, "memory")
db_path(app_data_dir) == join(app_data_dir, "pro-chat.db")
bundled_node(resource_dir) == join(join(resource_dir, "bin"), "node")

----------------------------------------------------------------------------
VARIABLES
  debug,        \* cfg!(debug_assertions) of the build
  host,         \* what the host machine and framework answer
  fs,           \* the paths that exist on disk
  content,      \* what the entry artifact holds, when it exists
  ops,          \* the file-system calls made so far, as <<call, path>>
  created,      \* the paths this program has created
  session,      \* "running", "ended" (run returned) or "panicked"
  setupPc,      \* position of the setup closure
  loc,          \* locals of spawn_api and the setup closure
  log,          \* lines written by eprintln!
  spawns,       \* number of Command::spawn calls made
  procs,        \* the worker processes spawned; a Child is an index here
  managed,      \* app.manage(ApiProcess(..)) has registered the state
  slot,         \* the Option<Child> inside the mutex; 0 is None
  mutex,        \* the window whose handler holds the lock; 0 is unlocked
  win,          \* each window: "open" or "destroyed"
  hpc,          \* position of each window's close-requested handler
  taken,        \* each handler's local `child` from guard.take(); 0 is None
  began         \* what was true when each close-requested event arrived

vars == <<debug, host, fs, content, ops, created, session, setupPc, loc, log,
          spawns, procs, managed, slot, mutex, win, hpc, taken, began>>

envVars == <<debug, host, content>>
fsVars == <<fs, ops, created>>
setupVars == <<setupPc, loc, log, spawns>>
stateVars == <<managed, slot>>
handlerVars == <<mutex, win, hpc, taken, began>>

\* No path: the Err of a path lookup, or a local not yet assigned.
NoPath == <<>>
\* No error: the Result of spawn_api is not an Err (so far).
NoErr == [kind |-> "none", path |-> NoPath]

\* What is installed: the resource directory with or without the entry
\* artifact and the bundled interpreter.
InstallDir == CHOOSE d \in ResourceDirs : TRUE

Closure(paths) ==
  {<<"/">>} \cup UNION {{Ancestors(p)[i] : i \in 1..Len(p)} : p \in paths}

\* The disk before the application starts.  c is what the entry artifact
\* holds ("absent" when it is not installed), n whether an interpreter is
\* bundled, a the application-data directory and pre how much of it is
\* left from an earlier session.
Disk(c, n, a, pre) ==
  Closure((IF c = "absent" THEN {} ELSE {entry(InstallDir)})
          \cup (IF n THEN {bundled_node(InstallDir)} ELSE {})
          \cup (IF a = NoPath \/ pre = 0 THEN {}
                ELSE IF pre = 1 THEN {a}
                ELSE {storage_root(a), memory_root(a)}))

Contents == {"absent", "script", "garbage"}

Init ==
  /\ debug \in BOOLEAN
  /\ host \in [resource_dir : ResourceDirs \cup {NoPath},
               app_data_dir : AppDataDirs \cup {NoPath},
               node_on_path : BOOLEAN]
  /\ content \in Contents
  /\ \E n \in BOOLEAN, pre \in 0..2 :
       fs = Disk(content, n, host.app_data_dir, pre)
  /\ ops = {}
  /\ created = {}
  /\ session = "running"
  /\ setupPc = "start"
  /\ loc = [err |-> NoErr, resource_dir |-> NoPath, app_data_dir |-> NoPath,
            node_command |-> NoPath, child |-> 0, result |-> "pending"]
  /\ log = <<>>
  /\ spawns = 0
  /\ procs = <<>>
  /\ managed = FALSE
  /\ slot = 0
  /\ mutex = 0
  /\ win = [w \in Windows |-> "open"]
  /\ hpc = [w \in Windows |-> "idle"]
  /\ taken = [w \in Windows |-> 0]
  /\ began = [w \in Windows |-> [started |-> FALSE, stopped |-> FALSE]]

----------------------------------------------------------------------------
(* The setup closure (lines 65-77) and spawn_api (lines 11-60).            *)

\* `?` on an Err: spawn_api returns it and setup's match takes the Err arm.
Fail(e) ==
  /\ loc' = [loc EXCEPT !.err = e]
  /\ setupPc' = "eprintln"

\* SetupBegin without the test of the build configuration.
SetupBegin_AnyBuild ==
  /\ session = "running"
  /\ setupPc = "start"
  /\ setupPc' = "resource_dir"
  /\ UNCHANGED <<envVars, fsVars, session, loc, log, spawns, procs,
                 stateVars, handlerVars>>

\* .setup(|app| { if !cfg!(debug_assertions) { match spawn_api(..) ..
SetupBegin ==
  /\ session = "running"
  /\ setupPc = "start"
  /\ setupPc' = IF debug THEN "return" ELSE "resource_dir"
  /\ UNCHANGED <<envVars, fsVars, session, loc, log, spawns, procs,
                 stateVars, handlerVars>>

\* let resource_dir = app.path().resource_dir().map_err(..)?;
ResolveResourceDir ==
  /\ session = "running"
  /\ setupPc = "resource_dir"
  /\ IF host.resource_dir = NoPath
       THEN Fail([kind |-> "resource_dir", path |-> NoPath])
       ELSE /\ loc' = [loc EXCEPT !.resource_dir = host.resource_dir]
            /\ setupPc' = "app_data_dir"
  /\ UNCHANGED <<envVars, fsVars, session, log, spawns, procs, stateVars,
                 handlerVars>>

\* ResolveAppDataDir going straight to the test of the entry artifact, the
\* directories being left for later.
ResolveAppDataDir_ValidateFirst ==
  /\ session = "running"
  /\ setupPc = "app_data_dir"
  /\ IF host.app_data_dir = NoPath
       THEN Fail([kind |-> "app_data_dir", path |-> NoPath])
       ELSE /\ loc' = [loc EXCEPT !.app_data_dir = host.app_data_dir]
            /\ setupPc' = "entry_exists"
  /\ UNCHANGED <<envVars, fsVars, session, log, spawns, procs, stateVars,
                 handlerVars>>

\* let app_data_dir = app.path().app_data_dir().map_err(..)?;
ResolveAppDataDir ==
  /\ session = "running"
  /\ setupPc = "app_data_dir"
  /\ IF host.app_data_dir = NoPath
       THEN Fail([kind |-> "app_data_dir", path |-> NoPath])
       ELSE /\ loc' = [loc EXCEPT !.app_data_dir = host.app_data_dir]
            /\ setupPc' = "create_app_data_dir"
  /\ UNCHANGED <<envVars, fsVars, session, log, spawns, procs, stateVars,
                 handlerVars>>

\* The ancestors of path (path included) that do not exist, as indices
\* into Ancestors(path).
Missing(path) == {i \in 1..Len(path) : Ancestors(path)[i] \notin fs}

\* create_dir_all as fs::create_dir, which refuses a directory that exists.
create_dir_all_Exclusive(path, next) ==
  LET first == Len(path) - Cardinality(Missing(path)) + 1
  IN \E k \in 0..Cardinality(Missing(path)) :
       LET made == {Ancestors(path)[i] : i \in first..(first + k - 1)}
       IN /\ fs' = fs \cup made
          /\ created' = created \cup made
          /\ ops' = ops \cup {<<"create_dir_all", path>>}
          /\ IF k = Cardinality(Missing(path)) /\ path \notin fs
               THEN /\ setupPc' = next
                    /\ UNCHANGED loc
               ELSE Fail([kind |-> "io", path |-> path])

\* fs::create_dir_all(path)?, continuing at `next`.  An existing directory
\* is left alone.  The missing ancestors are made from the shortest on; the
\* operating system may refuse any of them (permissions, disk full), which
\* leaves the shorter ones made and returns the Err.
create_dir_all(path, next) ==
  LET first == Len(path) - Cardinality(Missing(path)) + 1
  IN \E k \in 0..Cardinality(Missing(path)) :
       LET made == {Ancestors(path)[i] : i \in first..(first + k - 1)}
       IN /\ fs' = fs \cup made
          /\ created' = created \cup made
          /\ ops' = ops \cup {<<"create_dir_all", path>>}
          /\ IF k = Cardinality(Missing(path))
               THEN /\ setupPc' = next
                    /\ UNCHANGED loc
               ELSE Fail([kind |-> "io", path |-> path])

\* fs::create_dir_all(&app_data_dir)?;
CreateAppDataDir ==
  /\ session = "running"
  /\ setupPc = "create_app_data_dir"
  /\ create_dir_all(loc.app_data_dir, "create_storage_root")
  /\ UNCHANGED <<envVars, session, log, spawns, procs, stateVars,
                 handlerVars>>

\* CreateStorageRoot with the call left out.
CreateStorageRoot_Skipped ==
  /\ session = "running"
  /\ setupPc = "create_storage_root"
  /\ setupPc' = "create_memory_root"
  /\ UNCHANGED <<envVars, fsVars, session, loc, log, spawns, procs,
                 stateVars, handlerVars>>

\* fs::create_dir_all(&storage_root)?;
CreateStorageRoot ==
  /\ session = "running"
  /\ setupPc = "create_storage_root"
  /\ create_dir_all(storage_root(loc.app_data_dir), "create_memory_root")
  /\ UNCHANGED <<envVars, session, log, spawns, procs, stateVars,
                 handlerVars>>

\* fs::create_dir_all(&memory_root)?;
CreateMemoryRoot ==
  /\ session = "running"
  /\ setupPc = "create_memory_root"
  /\ create_dir_all(memory_root(loc.app_data_dir), "entry_exists")
  /\ UNCHANGED <<envVars, session, log, spawns, procs, stateVars,
                 handlerVars>>

\* CheckEntry without the early return.
CheckEntry_Continue ==
  /\ session = "running"
  /\ setupPc = "entry_exists"
  /\ ops' = ops \cup {<<"exists", entry(loc.resource_dir)>>}
  /\ setupPc' = "node_command"
  /\ UNCHANGED <<envVars, fs, created, session, loc, log, spawns, procs,
                 stateVars, handlerVars>>

\* if !entry.exists() { return Err(format!("API entry not found at {}", ..)) }
CheckEntry ==
  /\ session = "running"
  /\ setupPc = "entry_exists"
  /\ ops' = ops \cup {<<"exists", entry(loc.resource_dir)>>}
  /\ IF entry(loc.resource_dir) \notin fs
       THEN Fail([kind |-> "entry", path |-> entry(loc.resource_dir)])
       ELSE /\ setupPc' = "node_command"
            /\ UNCHANGED loc
  /\ UNCHANGED <<envVars, fs, created, session, log, spawns, procs,
                 stateVars, handlerVars>>

\* SelectNode preferring an interpreter found on the search path.
SelectNode_PathFirst ==
  /\ session = "running"
  /\ setupPc = "node_command"
  /\ ops' = ops \cup {<<"exists", bundled_node(loc.resource_dir)>>}
  /\ loc' = [loc EXCEPT !.node_command =
               IF ~host.node_on_path /\ bundled_node(loc.resource_dir) \in fs
                 THEN bundled_node(loc.resource_dir)
                 ELSE <<"node">>]
  /\ setupPc' = "spawn"
  /\ UNCHANGED <<envVars, fs, created, session, log, spawns, procs,
                 stateVars, handlerVars>>

\* let node_command = if bundled_node.exists() { bundled_node }
\*                    else { PathBuf::from("node") };
SelectNode ==
  /\ session = "running"
  /\ setupPc = "node_command"
  /\ ops' = ops \cup {<<"exists", bundled_node(loc.resource_dir)>>}
  /\ loc' = [loc EXCEPT !.node_command =
               IF bundled_node(loc.resource_dir) \in fs
                 THEN bundled_node(loc.resource_dir)
                 ELSE <<"node">>]
  /\ setupPc' = "spawn"
  /\ UNCHANGED <<envVars, fs, created, session, log, spawns, procs,
                 stateVars, handlerVars>>

\* The Command built in lines 47-56.
command ==
  [program |-> loc.node_command,
   args |-> <<entry(loc.resource_dir)>>,
   current_dir |-> api_dir(loc.resource_dir),
   env |-> [NODE_PATH |-> node_modules(loc.resource_dir),
            DATABASE_URL |-> db_url(db_path(loc.app_data_dir)),
            STORAGE_PATH |-> storage_root(loc.app_data_dir),
            MEMORY_PATH |-> memory_root(loc.app_data_dir)],
   stdin |-> "null", stdout |-> "inherit", stderr |-> "inherit"]

\* Whether the operating system can find the program to execute: a bare
\* name is looked up on the search path, a path must exist.
Resolves(program) ==
  IF program = <<"node">> THEN host.node_on_path ELSE program \in fs

\* let child = Command::new(node_command)...spawn()?;  The operating
\* system may refuse even a program it can find.
Spawn ==
  /\ session = "running"
  /\ setupPc = "spawn"
  /\ spawns' = spawns + 1
  /\ \E ok \in (IF Resolves(loc.node_command) THEN BOOLEAN ELSE {FALSE}) :
       IF ok
         THEN /\ procs' = Append(procs, [cmd |-> command,
                                         status |-> "running", kills |-> 0,
                                         kill_result |-> "none"])
              /\ loc' = [loc EXCEPT !.child = Len(procs) + 1]
              /\ setupPc' = "manage"
         ELSE /\ Fail([kind |-> "spawn", path |-> loc.node_command])
              /\ UNCHANGED procs
  /\ UNCHANGED <<envVars, fsVars, session, log, stateVars, handlerVars>>

\* Manage registering an empty slot and dropping the child.
Manage_Empty ==
  /\ session = "running"
  /\ setupPc = "manage"
  /\ managed' = TRUE
  /\ slot' = 0
  /\ setupPc' = "return"
  /\ UNCHANGED <<envVars, fsVars, session, loc, log, spawns, procs,
                 handlerVars>>

\* Ok(child) => { app.manage(ApiProcess(Arc::new(Mutex::new(Some(child))))); }
\* manage keeps a state of the same type that is already registered.
Manage ==
  /\ session = "running"
  /\ setupPc = "manage"
  /\ IF managed
       THEN UNCHANGED stateVars
       ELSE /\ managed' = TRUE
            /\ slot' = loc.child
  /\ setupPc' = "return"
  /\ UNCHANGED <<envVars, fsVars, session, loc, log, spawns, procs,
                 handlerVars>>

\* Eprintln with the error returned from the setup closure, which makes the
\* host framework panic.
Eprintln_Propagate ==
  /\ session = "running"
  /\ setupPc = "eprintln"
  /\ log' = Append(log, loc.err)
  /\ loc' = [loc EXCEPT !.result = "Err"]
  /\ setupPc' = "returned"
  /\ session' = "panicked"
  /\ UNCHANGED <<envVars, fsVars, spawns, procs, stateVars, handlerVars>>

\* Eprintln followed by another attempt at spawn_api.
Eprintln_Retry ==
  /\ session = "running"
  /\ setupPc = "eprintln"
  /\ log' = Append(log, loc.err)
  /\ setupPc' = "resource_dir"
  /\ UNCHANGED <<envVars, fsVars, session, loc, spawns, procs, stateVars,
                 handlerVars>>

\* Err(err) => { eprintln!("Failed to start API server: {err}"); }
Eprintln ==
  /\ session = "running"
  /\ setupPc = "eprintln"
  /\ log' = Append(log, loc.err)
  /\ setupPc' = "return"
  /\ UNCHANGED <<envVars, fsVars, session, loc, spawns, procs, stateVars,
                 handlerVars>>

\* SetupReturn with the hook left armed, so that it runs again.
SetupReturn_Again ==
  /\ session = "running"
  /\ setupPc = "return"
  /\ loc' = [loc EXCEPT !.result = "Ok"]
  /\ setupPc' = "start"
  /\ UNCHANGED <<envVars, fsVars, session, log, spawns, procs, stateVars,
                 handlerVars>>

\* Ok(()) at the end of the setup closure.
SetupReturn ==
  /\ session = "running"
  /\ setupPc = "return"
  /\ loc' = [loc EXCEPT !.result = "Ok"]
  /\ setupPc' = "returned"
  /\ UNCHANGED <<envVars, fsVars, session, log, spawns, procs, stateVars,
                 handlerVars>>

----------------------------------------------------------------------------
(* The window-event closure (lines 78-88), once per event of a window.     *)

\* CloseRequested acting for the first window only.
CloseRequested_MainOnly(w) ==
  /\ session = "running"
  /\ win[w] = "open"
  /\ hpc[w] = "idle"
  /\ hpc' = [hpc EXCEPT ![w] = IF w = 1 THEN "try_state" ELSE "done"]
  /\ began' = [began EXCEPT ![w] =
       [started |-> setupPc = "returned" /\ managed,
        stopped |-> \E v \in Windows : hpc[v] = "done" /\ began[v].started]]
  /\ UNCHANGED <<envVars, fsVars, session, setupVars, procs, stateVars,
                 mutex, win, taken>>

\* if let WindowEvent::CloseRequested { .. } = event { ..  The event of
\* window w arrives and matches.
CloseRequested(w) ==
  /\ session = "running"
  /\ win[w] = "open"
  /\ hpc[w] = "idle"
  /\ hpc' = [hpc EXCEPT ![w] = "try_state"]
  /\ began' = [began EXCEPT ![w] =
       [started |-> setupPc = "returned" /\ managed,
        stopped |-> \E v \in Windows : hpc[v] = "done" /\ began[v].started]]
  /\ UNCHANGED <<envVars, fsVars, session, setupVars, procs, stateVars,
                 mutex, win, taken>>

\* TryState with state::<ApiProcess>(), which panics when nothing is
\* registered.
TryState_Unwrap(w) ==
  /\ hpc[w] = "try_state"
  /\ IF managed
       THEN /\ hpc' = [hpc EXCEPT ![w] = "lock"]
            /\ UNCHANGED session
       ELSE /\ session' = "panicked"
            /\ hpc' = [hpc EXCEPT ![w] = "done"]
  /\ session = "running"
  /\ UNCHANGED <<envVars, fsVars, setupVars, procs, stateVars,
                 mutex, win, taken, began>>

\* if let Some(state) = window.app_handle().try_state::<ApiProcess>() {
TryState(w) ==
  /\ session = "running"
  /\ hpc[w] = "try_state"
  /\ hpc' = [hpc EXCEPT ![w] = IF managed THEN "lock" ELSE "done"]
  /\ UNCHANGED <<envVars, fsVars, session, setupVars, procs, stateVars,
                 mutex, win, taken, began>>

\* Lock without mutual exclusion.
Lock_NoExclusion(w) ==
  /\ session = "running"
  /\ hpc[w] = "lock"
  /\ mutex' = w
  /\ hpc' = [hpc EXCEPT ![w] = "take"]
  /\ UNCHANGED <<envVars, fsVars, session, setupVars, procs, stateVars,
                 win, taken, began>>

\* if let Ok(mut guard) = state.0.lock() {  Blocks while another handler
\* holds the lock.  No holder panics, so the lock is never poisoned.
Lock(w) ==
  /\ session = "running"
  /\ hpc[w] = "lock"
  /\ mutex = 0
  /\ mutex' = w
  /\ hpc' = [hpc EXCEPT ![w] = "take"]
  /\ UNCHANGED <<envVars, fsVars, session, setupVars, procs, stateVars,
                 win, taken, began>>

\* Take that looks at the handle and leaves it in the slot.
Take_Peek(w) ==
  /\ session = "running"
  /\ hpc[w] = "take"
  /\ taken' = [taken EXCEPT ![w] = slot]
  /\ hpc' = [hpc EXCEPT ![w] = IF slot # 0 THEN "kill" ELSE "unlock"]
  /\ UNCHANGED <<envVars, fsVars, session, setupVars, procs, stateVars,
                 mutex, win, began>>

\* if let Some(mut child) = guard.take() {
Take(w) ==
  /\ session = "running"
  /\ hpc[w] = "take"
  /\ taken' = [taken EXCEPT ![w] = slot]
  /\ slot' = 0
  /\ hpc' = [hpc EXCEPT ![w] = IF slot # 0 THEN "kill" ELSE "unlock"]
  /\ UNCHANGED <<envVars, fsVars, session, setupVars, procs, managed,
                 mutex, win, began>>

\* Kill with the child dropped instead of killed.
Kill_Dropped(w) ==
  /\ session = "running"
  /\ hpc[w] = "kill"
  /\ hpc' = [hpc EXCEPT ![w] = "unlock"]
  /\ UNCHANGED <<envVars, fsVars, session, setupVars, procs, stateVars,
                 mutex, win, taken, began>>

\* What child.kill() can return: Ok for a running worker; for one that has
\* exited, Ok or Err as the platform has it.
KillResults(c) ==
  IF procs[c].status = "running" THEN {"Ok"} ELSE {"Ok", "Err"}

\* Kill with the result unwrapped: an Err panics inside the handler.
Kill_Unwrap(w) ==
  /\ session = "running"
  /\ hpc[w] = "kill"
  /\ \E r \in KillResults(taken[w]) :
       /\ procs' = [procs EXCEPT ![taken[w]] =
            [@ EXCEPT !.kills = @ + 1,
                      !.kill_result = r,
                      !.status = IF @ = "running" THEN "killed" ELSE @]]
       /\ IF r = "Err"
            THEN session' = "panicked" /\ UNCHANGED hpc
            ELSE hpc' = [hpc EXCEPT ![w] = "unlock"] /\ UNCHANGED session
  /\ UNCHANGED <<envVars, fsVars, setupVars, stateVars, mutex,
                 win, taken, began>>

\* let _ = child.kill();  The signal is sent whatever the worker's state;
\* its result is dropped.
Kill(w) ==
  /\ session = "running"
  /\ hpc[w] = "kill"
  /\ \E r \in KillResults(taken[w]) :
       procs' = [procs EXCEPT ![taken[w]] =
         [@ EXCEPT !.kills = @ + 1,
                   !.kill_result = r,
                   !.status = IF @ = "running" THEN "killed" ELSE @]]
  /\ hpc' = [hpc EXCEPT ![w] = "unlock"]
  /\ UNCHANGED <<envVars, fsVars, session, setupVars, stateVars, mutex,
                 win, taken, began>>

\* The guard goes out of scope (line 85) and the closure returns.
Unlock(w) ==
  /\ session = "running"
  /\ hpc[w] = "unlock"
  /\ mutex' = 0
  /\ hpc' = [hpc EXCEPT ![w] = "done"]
  /\ UNCHANGED <<envVars, fsVars, session, setupVars, procs, stateVars,
                 win, taken, began>>

\* The closure called with WindowEvent::Destroyed: the pattern of line 79
\* does not match and nothing is done.  A window is destroyed after its
\* close request was handled, or by the host without a close request.
Destroyed(w) ==
  /\ session = "running"
  /\ win[w] = "open"
  /\ hpc[w] \in {"idle", "done"}
  /\ win' = [win EXCEPT ![w] = "destroyed"]
  /\ UNCHANGED <<envVars, fsVars, session, setupVars, procs, stateVars,
                 mutex, hpc, taken, began>>

----------------------------------------------------------------------------
(* main (lines 62-91) and the worker process.                              *)

\* .run(..) returns once the last window is gone; main returns and the
\* process exits.  Dropping a Child does not signal the process.  The setup
\* closure is called from within run, which returns after it.
RunReturns ==
  /\ session = "running"
  /\ setupPc = "returned"
  /\ \A w \in Windows : win[w] = "destroyed"
  /\ session' = "ended"
  /\ UNCHANGED <<envVars, fsVars, setupVars, procs, stateVars, handlerVars>>

\* .run(..) returns an Err before the application is set up and
\* .expect("error while running tauri application") panics.
RunError ==
  /\ session = "running"
  /\ setupPc = "start"
  /\ \A w \in Windows : win[w] = "open" /\ hpc[w] = "idle"
  /\ session' = "panicked"
  /\ UNCHANGED <<envVars, fsVars, setupVars, procs, stateVars, handlerVars>>

\* The worker exits on its own (a crash, or an entry artifact that is not
\* a program).
WorkerExits(c) ==
  /\ session = "running"
  /\ procs[c].status = "running"
  /\ procs' = [procs EXCEPT ![c].status = "exited"]
  /\ UNCHANGED <<envVars, fsVars, session, setupVars, stateVars,
                 handlerVars>>

Setup ==
  \/ SetupBegin
  \/ ResolveResourceDir
  \/ ResolveAppDataDir
  \/ CreateAppDataDir
  \/ CreateStorageRoot
  \/ CreateMemoryRoot
  \/ CheckEntry
  \/ SelectNode
  \/ Spawn
  \/ Manage
  \/ Eprintln
  \/ SetupReturn

OnWindowEvent(w) ==
  \/ CloseRequested(w)
  \/ TryState(w)
  \/ Lock(w)
  \/ Take(w)
  \/ Kill(w)
  \/ Unlock(w)
  \/ Destroyed(w)

Next ==
  \/ Setup
  \/ \E w \in Windows : OnWindowEvent(w)
  \/ RunReturns
  \/ RunError
  \/ \E c \in 1..Len(procs) : WorkerExits(c)

Spec == Init /\ [][Next]_vars

----------------------------------------------------------------------------
(* Properties.                                                             *)

Children == 1..Len(procs)

\* The worker c has had child.kill() called on it.
Signalled(c) == procs[c].kills >= 1

\* The handler of window w has executed guard.take().
PastTake(w) == hpc[w] \in {"kill", "unlock", "done"}

\* C1: in a release build, a close-requested event that arrives after the
\* setup closure has spawned and registered the worker leaves, when its
\* handler returns, the worker signalled and the slot empty; an event that
\* arrives after such a handler has returned finds the slot empty and sends
\* no signal.
C1_StartThenStop ==
  \A w \in Windows :
    (~debug /\ began[w].started) =>
      /\ hpc[w] = "done" =>
           (slot = 0 /\ procs # <<>> /\ \A c \in Children : Signalled(c))
      /\ began[w].stopped =>
           (hpc[w] # "kill" /\ (PastTake(w) => taken[w] = 0))

C1_Witness ==
  \E w, v \in Windows :
    /\ ~debug
    /\ began[w].started /\ hpc[w] = "done" /\ taken[w] # 0
    /\ began[v].stopped /\ hpc[v] = "done"

\* C2: when the session has ended, every worker that was spawned has been
\* sent a termination signal.
C2_EndedSessionSignalledWorker ==
  session = "ended" => \A c \in Children : Signalled(c)

\* C3: the take and the kill happen under the lock, the slot only holds a
\* handle that is registered, and once a handler that began after the
\* worker was stored and registered has returned, no spawned worker is
\* still in the slot or without a termination signal, whatever the
\* interleaving with other handlers.
C3_NoLeakAfterStop ==
  /\ \A w \in Windows : hpc[w] \in {"take", "kill", "unlock"} => mutex = w
  /\ slot # 0 => (managed /\ slot \in Children)
  /\ \A w \in Windows :
       (began[w].started /\ hpc[w] = "done") =>
         ~ \E c \in Children : slot = c \/ procs[c].kills = 0

C3_Witness ==
  \E w, v \in Windows :
    /\ w # v
    /\ began[w].started /\ ~began[w].stopped /\ hpc[w] = "done"
    /\ began[v].started /\ ~began[v].stopped /\ hpc[v] = "done"
    /\ taken[w] # 0

\* The workers spawned and not yet taken out of the slot by a handler.
Live == {c \in Children : \A w \in Windows : taken[w] # c}

\* C4: at most one spawned worker has not yet been taken out of the slot.
C4_AtMostOneLive == Cardinality(Live) <= 1

C4_Witness ==
  /\ Cardinality(Live) = 1
  /\ slot \in Live
  /\ \E w \in Windows : hpc[w] = "done"

\* A step in which the handler of window w executes its try_state lookup.
LooksUp(w) == hpc[w] = "try_state" /\ hpc'[w] # "try_state"

\* C5: a close-requested handler that finds nothing registered returns at
\* once: it changes nothing, sends no signal and does not panic.
C5_StopWithoutEntry ==
  [][\A w \in Windows :
       (LooksUp(w) /\ ~managed) =>
         /\ hpc'[w] = "done"
         /\ UNCHANGED <<envVars, fsVars, session, setupVars, procs,
                        stateVars, mutex, win, taken, began>>]_vars

C5_Witness ==
  \E w \in Windows :
    /\ hpc[w] = "done" /\ ~began[w].started
    /\ ~debug /\ setupPc = "returned" /\ loc.err # NoErr /\ ~managed

\* C6: in a debug build the setup closure makes no file-system call and
\* no spawn, nothing is ever registered, and no close-requested handler
\* gets past its lookup.
C6_DebugDoesNothing ==
  debug =>
    /\ ops = {} /\ created = {}
    /\ spawns = 0 /\ procs = <<>>
    /\ ~managed /\ slot = 0
    /\ \A w \in Windows :
         hpc[w] \in {"idle", "try_state", "done"} /\ taken[w] = 0

C6_Witness ==
  /\ debug /\ setupPc = "returned"
  /\ \A w \in Windows : hpc[w] = "done" /\ win[w] = "destroyed"
  /\ session = "ended"

\* C7: in a release build, when spawn_api has failed and the setup closure
\* has returned, the error was logged once, the closure returned Ok, the
\* session did not panic, nothing is registered and the slot is empty.
C7_FailureSwallowed ==
  (~debug /\ setupPc = "returned" /\ loc.err # NoErr) =>
    /\ log = <<loc.err>>
    /\ loc.result = "Ok"
    /\ session # "panicked"
    /\ ~managed /\ slot = 0

C7_Witness ==
  /\ ~debug /\ setupPc = "returned"
  /\ loc.err.kind = "spawn"
  /\ log # <<>>

\* The setup closure is past the statement that tests the entry artifact.
Checked == \E op \in ops : op[1] = "exists"

\* The setup closure is past the spawn statement, or has skipped it.
AfterSpawn == setupPc \in {"manage", "eprintln", "return", "returned"}

\* C8: once the entry artifact has been tested, the error is the
\* entry-missing error with the path resourceDir/api/dist/index.js exactly
\* when that path does not exist; if it does not exist no spawn is
\* attempted, and if it exists a spawn is attempted whatever it holds.
C8_EntryMissingIff ==
  LET expected == host.resource_dir \o <<"api", "dist", "index.js">>
  IN Checked =>
       /\ loc.err.kind = "entry" <=> expected \notin fs
       /\ loc.err.kind = "entry" => loc.err.path = expected
       /\ expected \notin fs => spawns = 0
       /\ (expected \in fs /\ AfterSpawn) => spawns = 1

C8_Witness ==
  /\ Checked /\ content = "garbage" /\ spawns = 1 /\ procs # <<>>

\* C9: when a spawn has been attempted, the application-data directory
\* and its storage and memory subdirectories exist and create_dir_all was
\* called on each; the resource directory is never created by the program.
C9_DirsBeforeSpawn ==
  /\ spawns > 0 =>
       \A d \in {host.app_data_dir,
                 host.app_data_dir \o <<"storage">>,
                 host.app_data_dir \o <<"memory">>} :
         d \in fs /\ <<"create_dir_all", d>> \in ops
  /\ \A r \in ResourceDirs : r \notin created

C9_Witness ==
  /\ spawns > 0
  /\ {host.app_data_dir,
      host.app_data_dir \o <<"storage">>,
      host.app_data_dir \o <<"memory">>} \subseteq created

\* Some handler has taken the handle out of the slot.
Stopped == \E w \in Windows : taken[w] # 0

\* C10: no step makes a second spawn attempt, and once a handler has
\* taken the handle or spawn_api has failed, no step puts a handle into
\* the slot.
C10_NoRetryNoRestart ==
  [][/\ spawns' <= 1
     /\ (Stopped \/ loc.err # NoErr) => slot' = 0]_vars

C10_Witness ==
  /\ Stopped /\ spawns = 1 /\ slot = 0
  /\ \A w \in Windows : hpc[w] = "done"

\* The setup closure is past the statement that chooses the interpreter.
Planned == setupPc \in {"spawn", "manage"} \/ spawns > 0

\* C11: the program to execute is resourceDir/bin/node exactly when that
\* path exists, and the bare name "node" otherwise, whether or not "node"
\* is on the search path; a bare name that does not resolve reaches the
\* spawn and fails there.
C11_ExecutableSelection ==
  LET bundled == host.resource_dir \o <<"bin", "node">>
      chosen == IF bundled \in fs THEN bundled ELSE <<"node">>
  IN Planned =>
       /\ loc.node_command = chosen
       /\ \A c \in Children : procs[c].cmd.program = chosen
       /\ (chosen = <<"node">> /\ ~host.node_on_path /\ AfterSpawn) =>
            (spawns = 1 /\ procs = <<>> /\ loc.err.kind = "spawn")

C11_Witness ==
  /\ Planned /\ setupPc = "returned"
  /\ loc.node_command = <<"node">> /\ ~host.node_on_path
  /\ loc.err.kind = "spawn"

C11_WitnessBundled ==
  /\ Planned /\ host.node_on_path /\ procs # <<>>
  /\ procs[1].cmd.program = host.resource_dir \o <<"bin", "node">>

\* The number of spaces of s before position i.
SpacesBefore(s, i) == Cardinality({j \in 1..(i - 1) : s[j] = " "})

\* out is s with each space written as the three characters %20 and every
\* other character in place.
EscapesSpaces(s, out) ==
  /\ Len(out) = Len(s) + 2 * SpacesBefore(s, Len(s) + 1)
  /\ \A i \in 1..Len(s) :
       LET k == i + 2 * SpacesBefore(s, i)
       IN IF s[i] = " "
            THEN out[k] = "%" /\ out[k + 1] = "2" /\ out[k + 2] = "0"
            ELSE out[k] = s[i]

\* C12: the DATABASE_URL of a spawned worker is "file://" followed by the
\* text of the database file path with each space replaced by %20 and
\* every other character, "%" and "#" included, unchanged; /a b/c.db gives
\* file:///a%20b/c.db.
C12_DatabaseUrl ==
  /\ \A c \in Children :
       LET url == procs[c].cmd.env.DATABASE_URL
           text == to_string_lossy(host.app_data_dir \o <<"pro-chat.db">>)
       IN /\ SubSeq(url, 1, 7) = <<"f", "i", "l", "e", ":", "/", "/">>
          /\ EscapesSpaces(text, SubSeq(url, 8, Len(url)))
  /\ db_url(<<"/", "a b", "c.db">>) =
       <<"f", "i", "l", "e", ":", "/", "/",
         "/", "a", "%", "2", "0", "b", "/", "c", ".", "d", "b">>

C12_Witness ==
  /\ procs # <<>>
  /\ host.app_data_dir = <<"/", "my home", "a%#b">>
  /\ procs[1].cmd.env.DATABASE_URL =
       <<"f", "i", "l", "e", ":", "/", "/", "/", "m", "y", "%", "2", "0",
         "h", "o", "m", "e", "/", "a", "%", "#", "b", "/",
         "p", "r", "o", "-", "c", "h", "a", "t", ".", "d", "b">>

\* C14: a handler that took a handle ends with the slot empty, the lock
\* released and the session alive, whatever child.kill() returned, also for
\* a worker that had exited before; after the kill it can always go on.
C14_StopHasNoErrorPath ==
  \A w \in Windows :
    /\ (taken[w] # 0 /\ procs[taken[w]].kill_result # "none") =>
         (hpc[w] \in {"unlock", "done"} /\ session # "panicked")
    /\ hpc[w] = "unlock" => ENABLED Unlock(w)
    /\ (taken[w] # 0 /\ hpc[w] = "done") =>
         (slot = 0 /\ mutex # w /\ procs[taken[w]].kills = 1)

C14_Witness ==
  \E w \in Windows :
    /\ hpc[w] = "done" /\ taken[w] # 0
    /\ procs[taken[w]].status = "exited"
    /\ procs[taken[w]].kill_result = "Err"
    /\ slot = 0 /\ mutex = 0

\* C15: each spawned worker is taken by at most one handler and has
\* child.kill() called on it at most once, by the handler that took it.
C15_KillAtMostOnce ==
  /\ \A c \in Children :
       /\ procs[c].kills <= 1
       /\ Cardinality({w \in Windows : taken[w] = c}) <= 1
       /\ procs[c].kills = 1 =>
            \E w \in Windows : taken[w] = c /\ hpc[w] \in {"unlock", "done"}
  /\ \A w \in Windows : hpc[w] = "kill" => taken[w] \in Children

C15_Witness ==
  /\ \A w \in Windows : hpc[w] = "done" /\ began[w].started
  /\ \E w \in Windows : taken[w] # 0
  /\ procs[1].kills = 1

\* The writable directories of the session.
DataDirs ==
  {host.app_data_dir,
   host.app_data_dir \o <<"storage">>,
   host.app_data_dir \o <<"memory">>}

\* The setup closure is at one of the three create_dir_all statements.
AtCreateDir ==
  setupPc \in {"create_app_data_dir", "create_storage_root",
               "create_memory_root"}

\* C16: on a disk where the three writable directories exist, as a first
\* run of the directory-creation step leaves it, each create_dir_all of
\* the step succeeds and neither the disk nor the set of created paths
\* changes.
C16_CreateDirsIdempotent ==
  [][(AtCreateDir /\ DataDirs \subseteq fs /\ setupPc' # setupPc) =>
       /\ setupPc' # "eprintln"
       /\ loc' = loc
       /\ fs' = fs
       /\ created' = created]_vars

C16_Witness ==
  /\ ~debug /\ setupPc = "entry_exists"
  /\ \A d \in DataDirs : <<"create_dir_all", d>> \in ops
  /\ created = {}
  /\ loc.err = NoErr

\* Exactly one of: the slot holds the worker and it was never signalled;
\* the slot is empty and the worker was signalled.
HeldOrSignalled ==
  (slot = 1 /\ procs[1].kills = 0) # (slot = 0 /\ procs[1].kills >= 1)

\* C17 as stated: whenever an entry is registered, the build is release,
\* one worker was spawned, and exactly one of held-and-unsignalled and
\* empty-and-signalled holds.
C17_AsStated ==
  managed => (~debug /\ Len(procs) = 1 /\ HeldOrSignalled)

\* C17, amended: whenever an entry is registered, the build is release and
\* one worker was spawned; exactly one of held-and-unsignalled and
\* empty-and-signalled holds, except while a handler has taken the handle
\* and not yet called kill on it, when the slot is empty and the worker
\* unsignalled.
C17_RegisteredSlotState ==
  managed =>
    /\ ~debug /\ Len(procs) = 1 /\ spawns = 1
    /\ IF \E w \in Windows : hpc[w] = "kill"
         THEN slot = 0 /\ procs[1].kills = 0
         ELSE HeldOrSignalled

C17_Witness ==
  /\ managed /\ slot = 0 /\ procs[1].kills = 1
  /\ \E w \in Windows : hpc[w] = "idle"
  /\ \E w \in Windows : hpc[w] = "done" /\ taken[w] = 1

\* C18: in a release build whose startup failed on the missing entry
\* artifact, the three writable directories exist once the setup closure
\* has returned, and no spawn was attempted.
C18_DirsBeforeValidation ==
  (~debug /\ setupPc = "returned" /\ loc.err.kind = "entry") =>
    /\ DataDirs \subseteq fs
    /\ \A d \in DataDirs : <<"create_dir_all", d>> \in ops
    /\ spawns = 0 /\ procs = <<>> /\ ~managed

C18_Witness ==
  /\ ~debug /\ setupPc = "returned" /\ loc.err.kind = "entry"
  /\ DataDirs \subseteq created
  /\ content = "absent"

\* C19: whichever window's close-requested event is the first handled
\* after the worker was stored and registered, its handler returns with
\* the slot empty and the one worker signalled, with other windows open or
\* not, and no further spawn is made.
C19_AnyWindowStops ==
  \A w \in Windows :
    (began[w].started /\ ~began[w].stopped /\ hpc[w] = "done") =>
      /\ slot = 0
      /\ Len(procs) = 1 /\ spawns = 1
      /\ procs[1].kills = 1

C19_Witness ==
  \E w, v \in Windows :
    /\ w # 1 /\ v # w
    /\ began[w].started /\ hpc[w] = "done" /\ taken[w] = 1
    /\ win[v] = "open" /\ hpc[v] = "idle"
    /\ slot = 0 /\ procs[1].status = "killed"

====
